---- MODULE Spec2Model ----
(***************************************************************************)
(* A model of gomomo, a Go client for the MTN Mobile Money API:            *)
(*   - Config construction (NewConfig, the options, Validate),             *)
(*   - the HTTP dispatcher (Client.DoRequest),                             *)
(*   - the token cache (AuthService.GetAccessToken, with sandbox           *)
(*     provisioning through CreateAPIUser / CreateAPIKey).                 *)
(* Go strings are TLA+ strings; a Go pointer is a sequence of length 0     *)
(* (nil) or 1; Go's int / int64 / time.Duration are 8-byte two's           *)
(* complement values (little-endian tuples of bytes), so that arithmetic   *)
(* wraps as it does in the program.                                        *)
(***************************************************************************)
EXTENDS Integers, Sequences, FiniteSets, TLC

VARIABLES
    formatPhone,  \* the formatPhoneNumber call: its input and what it returned
    newConfig,    \* the NewConfig call: its inputs and what it returned
    doRequest,    \* a stand-alone DoRequest call: its inputs and what it returned
    config,       \* AuthService.config (shared, read-only after construction)
    accessToken,  \* AuthService.accessToken
    tokenExpiry,  \* AuthService.tokenExpiry
    tokenMutex,   \* AuthService.tokenMutex: <<>> when free, <<p>> when p holds it
    now,          \* the clock time.Now() reads, in seconds since the program started
    pc,           \* per caller: its position in GetAccessToken
    call,         \* per caller: the locals of its GetAccessToken call
    inflight,     \* HTTP requests sent and not yet answered
    cached,       \* history: the call that wrote the cache last, and what it returned
    last,         \* history: the call that returned in the last step
    created,      \* the number of identifiers uuid.New() has returned
    operation     \* per caller: the product operation it is in, if any

vars == <<formatPhone, newConfig, doRequest, config, accessToken, tokenExpiry,
          tokenMutex, now, pc, call, inflight, cached, last, created, operation>>

authVars == <<config, accessToken, tokenExpiry, tokenMutex, now, pc, call,
              inflight, cached, last, created, operation>>

----------------------------------------------------------------------------
(* Fixed-width integers.                                                   *)

Int64Bytes == 8
WideBytes == 2 * Int64Bytes

\* the low k bytes of the two's complement of n, least significant first
RECURSIVE Bytes(_, _)
Bytes(n, k) ==
    IF k = 0 THEN <<>> ELSE <<n % 256>> \o Bytes(n \div 256, k - 1)

I64(n) == Bytes(n, Int64Bytes)
Wide(n) == Bytes(n, WideBytes)

IsNeg(a) == a[Len(a)] >= 128

\* In the arithmetic below each operand is bound by a one-element set, so that
\* it is evaluated once however often its digits are read.

\* a widened to w bytes, keeping its value
SignExt(a, w) ==
    CHOOSE r \in {[i \in 1..w |-> IF i <= Len(x) THEN x[i]
                                   ELSE IF IsNeg(x) THEN 255 ELSE 0] : x \in {a}} : TRUE

RECURSIVE AddCarry(_, _, _, _)
AddCarry(a, b, i, c) ==
    IF i > Len(a) THEN <<>>
    ELSE LET s == a[i] + b[i] + c
         IN  <<s % 256>> \o AddCarry(a, b, i + 1, s \div 256)

\* a + b, wrapping at the width of a and b
AddB(a, b) == CHOOSE r \in {AddCarry(x, y, 1, 0) : x \in {a}, y \in {b}} : TRUE

NegB(a) ==
    CHOOSE r \in {AddB([i \in 1..Len(x) |-> 255 - x[i]], Bytes(1, Len(x))) : x \in {a}} :
        TRUE

\* a - b, wrapping
SubB(a, b) == AddB(a, NegB(b))

RECURSIVE DotTo(_, _, _, _)
DotTo(a, b, k, i) ==
    IF i = 0 THEN 0 ELSE a[i] * b[k + 1 - i] + DotTo(a, b, k, i - 1)

RECURSIVE MulCarry(_, _, _, _)
MulCarry(a, b, k, c) ==
    IF k > Len(a) THEN <<>>
    ELSE LET s == c + DotTo(a, b, k, k)
         IN  <<s % 256>> \o MulCarry(a, b, k + 1, s \div 256)

\* a * b, wrapping (the low bytes of the product are the same signed or unsigned)
MulB(a, b) == CHOOSE r \in {MulCarry(x, y, 1, 0) : x \in {a}, y \in {b}} : TRUE

RECURSIVE LessFrom(_, _, _)
LessFrom(a, b, i) ==
    IF i = 0 THEN FALSE
    ELSE IF a[i] # b[i] THEN a[i] < b[i]
    ELSE LessFrom(a, b, i - 1)

\* a < b as signed values of the same width
LessB(a, b) ==
    CHOOSE r \in {IF IsNeg(x) # IsNeg(y) THEN IsNeg(x) ELSE LessFrom(x, y, Len(x)) :
                    x \in {a}, y \in {b}} : TRUE

\* time.Second, a time.Duration: 10^9 nanoseconds
Second == I64(1000000000)

\* time.Duration(n) * time.Second for an int n
Seconds(n) == MulB(n, Second)

\* A time.Time is an instant, exact over the range the model uses: WideBytes
\* bytes of nanoseconds since the program started.
TimeOf(sec) == MulB(Wide(sec), SignExt(Second, WideBytes))

\* Time.Add: exact, whatever the Duration
TimeAdd(t, d) == AddB(t, SignExt(d, WideBytes))

\* Time.Before
Before(t, u) == LessB(t, u)

\* time.Time{}: January 1, year 1, which is 62135596800 s before the Unix epoch
\* and so at least that long before the program started
ZeroTime == NegB(MulB(MulB(Wide(621355968), Wide(100)), SignExt(Second, WideBytes)))

----------------------------------------------------------------------------
(* Config.                                                                 *)

Sandbox == "sandbox"
Production == "production"

ConfigFields == {"SubscriptionKey", "DisbursementKey", "TargetEnvironment",
                 "CallbackHost", "APIUser", "APIKey", "Currency", "Host"}

\* the environment variable FromEnv reads for each field
EnvVar(field) ==
    CASE field = "SubscriptionKey"   -> "MOMO_SUBSCRIPTION_KEY"
      [] field = "DisbursementKey"   -> "MOMO_DISBURSEMENT_KEY"
      [] field = "TargetEnvironment" -> "MOMO_TARGET_ENVIRONMENT"
      [] field = "CallbackHost"      -> "MOMO_CALLBACK_HOST"
      [] field = "Host"              -> "MOMO_HOST"
      [] field = "APIUser"           -> "MOMO_API_USER"
      [] field = "APIKey"            -> "MOMO_API_KEY"
      [] field = "Currency"          -> "MOMO_CURRENCY"

EnvVars == {EnvVar(f) : f \in ConfigFields}

\* the zero Config
ZeroConfig ==
    [SubscriptionKey |-> "", DisbursementKey |-> "", TargetEnvironment |-> "",
     CallbackHost |-> "", APIUser |-> "", APIKey |-> "", Environment |-> "",
     Currency |-> "", Host |-> ""]

\* the option With<field>(value)
With(field, value) == [opt |-> "With", field |-> field, value |-> value]

\* the option FromEnv()
FromEnv == [opt |-> "FromEnv", field |-> "", value |-> ""]

\* what an option's closure does to the config; env is the process environment
ApplyOption(c, o, env) ==
    IF o.opt = "With"
    THEN [c EXCEPT ![o.field] = o.value]
    ELSE [f \in DOMAIN c |->
            IF f \in ConfigFields /\ env[EnvVar(f)] # "" THEN env[EnvVar(f)]
            ELSE c[f]]

\* for _, opt := range opts { opt(config) }
RECURSIVE ApplyOptions(_, _, _)
ApplyOptions(c, opts, env) ==
    IF opts = <<>> THEN c
    ELSE ApplyOptions(ApplyOption(c, Head(opts), env), Tail(opts), env)

\* the production check of Validate
ProductionCredentialsMissing(c) ==
    c.Environment = Production /\ c.APIUser = "" /\ c.APIKey = ""

\* DefaultDisbursementKey with the defaulting left out
DefaultDisbursementKey_Never(c) == c

\* the defaulting of Validate
DefaultDisbursementKey(c) ==
    IF c.DisbursementKey = ""
    THEN [c EXCEPT !.DisbursementKey = c.SubscriptionKey]
    ELSE c

\* Validate with the host check left out
Validate_NoHostCheck(c) ==
    IF c.SubscriptionKey = ""
    THEN [err |-> "subscription key is required", config |-> c]
    ELSE IF c.TargetEnvironment = ""
    THEN [err |-> "target environment is required", config |-> c]
    ELSE IF ProductionCredentialsMissing(c)
    THEN [err |-> "API user and key are required for production", config |-> c]
    ELSE LET d == DefaultDisbursementKey(c)
         IN  IF d.Currency = ""
             THEN [err |-> "currency is required", config |-> d]
             ELSE [err |-> "", config |-> d]

\* Config.Validate: the error ("" for nil) and the config as the call leaves it
Validate(c) ==
    IF c.SubscriptionKey = ""
    THEN [err |-> "subscription key is required", config |-> c]
    ELSE IF c.TargetEnvironment = ""
    THEN [err |-> "target environment is required", config |-> c]
    ELSE IF c.Host = ""
    THEN [err |-> "host is required", config |-> c]
    ELSE IF ProductionCredentialsMissing(c)
    THEN [err |-> "API user and key are required for production", config |-> c]
    ELSE LET d == DefaultDisbursementKey(c)
         IN  IF d.Currency = ""
             THEN [err |-> "currency is required", config |-> d]
             ELSE [err |-> "", config |-> d]

\* the config NewConfig starts from
DefaultConfig(environment) ==
    LET c == [ZeroConfig EXCEPT !.Environment = environment, !.Currency = "EUR"]
    IN  CASE environment = Sandbox ->
               [c EXCEPT !.Host = "sandbox.momodeveloper.mtn.com",
                         !.TargetEnvironment = "sandbox"]
          [] environment = Production -> [c EXCEPT !.Currency = ""]
          [] OTHER -> c

\* the config as Validate receives it
Configured(environment, opts, env) ==
    ApplyOptions(DefaultConfig(environment), opts, env)

\* NewConfig: the *Config (<<>> for nil) and the error ("" for nil)
NewConfig(environment, opts, env) ==
    LET v == Validate(Configured(environment, opts, env))
    IN  IF v.err # "" THEN [config |-> <<>>, err |-> v.err]
        ELSE [config |-> <<v.config>>, err |-> ""]

\* The inputs of the NewConfig call.
MaxOpts == 3

Environments == {Sandbox, Production, "staging"}

OptionValues == {"", "a"}

Options == {With(f, v) : f \in ConfigFields, v \in OptionValues} \cup {FromEnv}

RECURSIVE SeqsUpTo(_, _)
SeqsUpTo(S, n) ==
    IF n = 0 THEN {<<>>}
    ELSE LET shorter == SeqsUpTo(S, n - 1)
         IN  shorter \cup {Append(q, x) : q \in {r \in shorter : Len(r) = n - 1}, x \in S}

\* process environments: no variable set, all set, exactly one set, all but one set
OsEnvs ==
    LET setting(S) == [v \in EnvVars |-> IF v \in S THEN "e" ELSE ""]
    IN  {setting({}), setting(EnvVars)}
        \cup {setting({v}) : v \in EnvVars}
        \cup {setting(EnvVars \ {v}) : v \in EnvVars}

NewConfigIdle ==
    [state |-> "idle", environment |-> "", configured |-> ZeroConfig,
     config |-> <<>>, err |-> ""]

\* a program calls NewConfig(environment, opts...)
NewConfigCall ==
    /\ newConfig.state = "idle"
    /\ \E environment \in Environments, opts \in SeqsUpTo(Options, MaxOpts),
          env \in OsEnvs :
         LET r == NewConfig(environment, opts, env)
         IN  newConfig' = [state |-> "returned", environment |-> environment,
                           configured |-> Configured(environment, opts, env),
                           config |-> r.config, err |-> r.err]
    /\ UNCHANGED <<formatPhone, doRequest, authVars>>


----------------------------------------------------------------------------
(* Client.DoRequest.                                                       *)

\* A value of a JSON document or of a Go struct field: a string, or a number
\* that fits a Go int ("int", its value in num), or any other JSON value
\* ("other": a fraction, a number out of range, an array, ...).
Str(s) == [type |-> "string", str |-> s, num |-> I64(0)]
Num(n) == [type |-> "int", str |-> "", num |-> n]
Other == [type |-> "other", str |-> "", num |-> I64(0)]

\* A response body: no bytes, text that is not JSON, or a JSON object.
EmptyBody == [kind |-> "empty", text |-> "", members |-> <<>>]
TextBody(t) == [kind |-> "text", text |-> t, members |-> <<>>]
ObjectBody(m) == [kind |-> "object", text |-> "", members |-> m]

\* An error: the messages of its chain, outermost first, and for a failed
\* status the status code and body that the message carries.  NilError is nil.
NilError == [chain |-> <<>>, status |-> 0, body |-> EmptyBody]
Errorf(msg) == [chain |-> <<msg>>, status |-> 0, body |-> EmptyBody]

\* fmt.Errorf(msg + ": %w", err)
Wrap(msg, err) == [err EXCEPT !.chain = <<msg>> \o @]

\* http.StatusNoContent
StatusNoContent == 204

\* FailureStatus with the upper comparison off by one
FailureStatus_OffByOne(status) == status < 200 \/ status > 300

\* resp.StatusCode < 200 || resp.StatusCode >= 300
FailureStatus(status) == status < 200 \/ status >= 300

\* ShouldDecode without the test for 204
ShouldDecode_Always(result, status) == result # <<>>

\* result != nil && resp.StatusCode != http.StatusNoContent
ShouldDecode(result, status) == result # <<>> /\ status # StatusNoContent

\* json.NewDecoder(body).Decode(&v) for a struct v: the error and v afterwards.
\* A member the struct has no field for is skipped, a field the object has no
\* member for keeps its value, and a member of the wrong type is an error.
Decode(body, v) ==
    CASE body.kind = "empty" -> [err |-> Errorf("EOF"), v |-> v]
      [] body.kind = "text" -> [err |-> Errorf("invalid character"), v |-> v]
      [] OTHER ->
           LET m == body.members
               fits(k) == k \notin DOMAIN m \/ m[k].type = v[k].type
               w == [k \in DOMAIN v |-> IF k \in DOMAIN m /\ fits(k) THEN m[k] ELSE v[k]]
           IN  IF \A k \in DOMAIN v : fits(k)
               THEN [err |-> NilError, v |-> w]
               ELSE [err |-> Errorf("cannot unmarshal"), v |-> w]

\* http.NewRequestWithContext accepts the method and the URL
ValidMethods == {"GET", "POST", "PUT", "DELETE"}
ValidHost(host) == host # "bad host"

\* DoRequest up to the call of httpClient.Do: the error that ends it early
\* (NilError when the request is sent)
DoRequestSend(host, req) ==
    IF req.Body # <<>> /\ ~req.Body[1].marshals
    THEN Wrap("error marshaling request body", Errorf("unsupported type"))
    ELSE IF req.Method \notin ValidMethods \/ ~ValidHost(host)
    THEN Wrap("error creating HTTP request", Errorf("invalid method or URL"))
    ELSE NilError

\* DoRequest from the return of httpClient.Do: rt is what the transport
\* returned, result the output slot (<<>> for nil, else <<what it points to>>)
DoRequestReceive(rt, result) ==
    IF rt.err # ""
    THEN [err |-> Wrap("error making HTTP request", Errorf(rt.err)), result |-> result]
    ELSE IF FailureStatus(rt.status)
    THEN [err |-> [chain |-> <<"API request failed with status code">>,
                   status |-> rt.status, body |-> rt.body],
          result |-> result]
    ELSE IF ShouldDecode(result, rt.status)
    THEN LET d == Decode(rt.body, result[1])
         IN  IF d.err # NilError
             THEN [err |-> Wrap("error decoding response", d.err), result |-> <<d.v>>]
             ELSE [err |-> NilError, result |-> <<d.v>>]
    ELSE [err |-> NilError, result |-> result]

\* Client.DoRequest: the error, the output slot afterwards, and the number of
\* HTTP requests sent
DoRequest(host, req, result, rt) ==
    LET e == DoRequestSend(host, req)
    IN  IF e # NilError THEN [err |-> e, result |-> result, sent |-> 0]
        ELSE LET r == DoRequestReceive(rt, result)
             IN  [err |-> r.err, result |-> r.result, sent |-> 1]

\* a request body: a value json.Marshal encodes, or one it rejects
Payload(name) == <<[value |-> name, marshals |-> TRUE]>>
BadPayload == <<[value |-> "chan", marshals |-> FALSE]>>

Request(method, path, body, headers) ==
    [Method |-> method, Path |-> path, Body |-> body, Headers |-> headers]

\* what the transport returns: an error, or a response
TransportError(e) == [err |-> e, status |-> 0, body |-> EmptyBody]
Response(status, body) == [err |-> "", status |-> status, body |-> body]

\* The inputs of the stand-alone DoRequest call.
Statuses == {101, 199, 200, 201, 202, 204, 299, 300, 403, 404, 500}

\* an output slot of two fields, as the caller passes it
Slot(s, n) == <<[name |-> Str(s), count |-> Num(I64(n))]>>

DispatchBodies ==
    {EmptyBody, TextBody("Forbidden"), TextBody("<html>"),
     ObjectBody([name |-> Str("n1")]),
     ObjectBody([name |-> Str("n1"), count |-> Num(I64(7))]),
     ObjectBody([name |-> Num(I64(7))]),
     ObjectBody([count |-> Other, extra |-> Str("x")])}

DispatchResults == {<<>>, Slot("", 0), Slot("old", 3)}

DispatchRequests ==
    {Request(m, <<"/path">>, b, <<>>) :
        m \in {"GET", "POST", "BAD METHOD"}, b \in {<<>>, Payload("p"), BadPayload}}

DispatchTransport ==
    {TransportError("timeout")}
    \cup {Response(st, b) : st \in Statuses, b \in DispatchBodies}

DoRequestIdle ==
    [state |-> "idle", req |-> Request("", <<>>, <<>>, <<>>), result |-> <<>>,
     rt |-> TransportError(""), host |-> "",
     ret |-> [err |-> NilError, result |-> <<>>, sent |-> 0]]

\* a program calls client.DoRequest(ctx, req, result) and the transport answers rt
DoRequestCall ==
    /\ doRequest.state = "idle"
    /\ \E host \in {"h", "bad host"}, req \in DispatchRequests,
          result \in DispatchResults, rt \in DispatchTransport :
         doRequest' = [state |-> "returned", req |-> req, result |-> result,
                       rt |-> rt, host |-> host,
                       ret |-> DoRequest(host, req, result, rt)]
    /\ UNCHANGED <<formatPhone, newConfig, authVars>>


----------------------------------------------------------------------------
(* formatPhoneNumber.  A phone number is the sequence of its characters.    *)

\* r >= '0' && r <= '9'
IsDigit(r) == r \in {"0", "1", "2", "3", "4", "5", "6", "7", "8", "9"}

\* strings.Map with a mapping that keeps the digits and drops everything else
RECURSIVE DigitsOnly(_)
DigitsOnly(phone) ==
    IF phone = <<>> THEN <<>>
    ELSE IF IsDigit(Head(phone)) THEN <<Head(phone)>> \o DigitsOnly(Tail(phone))
    ELSE DigitsOnly(Tail(phone))

\* strings.HasPrefix
HasPrefix(str, prefix) ==
    Len(str) >= Len(prefix) /\ SubSeq(str, 1, Len(prefix)) = prefix

\* the country code "231"
CountryCode == <<"2", "3", "1">>

\* formatPhoneNumber that keeps the leading 0 behind the country code
formatPhoneNumber_KeepZero(phone) ==
    LET digitsOnly == DigitsOnly(phone)
    IN  IF ~HasPrefix(digitsOnly, CountryCode) THEN CountryCode \o digitsOnly
        ELSE digitsOnly

\* formatPhoneNumber
formatPhoneNumber(phone) ==
    LET digitsOnly == DigitsOnly(phone)
    IN  IF Len(digitsOnly) > 0 /\ digitsOnly[1] = "0"
        THEN CountryCode \o SubSeq(digitsOnly, 2, Len(digitsOnly))
        ELSE IF ~HasPrefix(digitsOnly, CountryCode) THEN CountryCode \o digitsOnly
        ELSE digitsOnly

\* The inputs of the formatPhoneNumber call: every string of up to MaxPhoneLen
\* of these characters, and three full-length numbers.
MaxPhoneLen == 4

PhoneChars == {"0", "1", "2", "3", "7", "+", "-", " "}

PhoneExamples ==
    {<<"0", "7", "3", "3", "1", "2", "3", "4", "5", "4">>,
     <<"7", "3", "3", "1", "2", "3", "4", "5", "4">>,
     <<"2", "3", "1", "7", "3", "3", "1", "2", "3", "4", "5", "4">>,
     <<"+", "2", "3", "1", " ", "7", "3", "3", "-", "1", "2", "3", "-", "4", "5", "4">>}

Phones == SeqsUpTo(PhoneChars, MaxPhoneLen) \cup PhoneExamples

FormatPhoneIdle == [state |-> "idle", phone |-> <<>>, out |-> <<>>]

\* a product operation calls formatPhoneNumber(phone)
FormatPhoneCall ==
    /\ formatPhone.state = "idle"
    /\ \E phone \in Phones :
         formatPhone' = [state |-> "returned", phone |-> phone,
                         out |-> formatPhoneNumber(phone)]
    /\ UNCHANGED <<newConfig, doRequest, authVars>>


----------------------------------------------------------------------------
(* AuthService.                                                            *)

NumCallers == 2
MaxUsers == 2
MaxTime == 2

Callers == 1..NumCallers

Products == {"collection", "disbursement", "unknown"}

KnownProducts == {"collection", "disbursement"}

\* CreateBasicAuthHeader: "Basic " + base64(apiUser + ":" + apiKey)
CreateBasicAuthHeader(apiUser, apiKey) ==
    <<"Basic ", [base64 |-> <<apiUser, ":", apiKey>>]>>

\* NewUUID that returns the same identifier every time
NewUUID_Same(n) == "uuid-1"

\* uuid.New().String(): the n-th identifier drawn, each one new
NewUUID(n) ==
    <<"uuid-1", "uuid-2", "uuid-3", "uuid-4", "uuid-5", "uuid-6", "uuid-7", "uuid-8">>[n]

\* the zero TokenResponse, as &tokenResp
ZeroTokenResponse ==
    <<[access_token |-> Str(""), token_type |-> Str(""), expires_in |-> Num(I64(0))]>>

\* var result struct{ APIKey string }, as &result
ZeroAPIKeyResult == <<[apiKey |-> Str("")]>>

\* a caller that is in no product operation; in one, state is "token" while
\* GetAccessToken runs, "dispatch" once it has returned (token, err), and
\* "response" while the operation's own request is unanswered
NoOperation ==
    [state |-> "idle", service |-> "", name |-> "", phone |-> <<>>,
     referenceID |-> "", amount |-> 0, opts |-> <<>>, token |-> "", err |-> NilError]

\* the locals of a GetAccessToken call, and the requests it has sent
NoCall == [product |-> "", apiUser |-> "", apiKey |-> "", uuid |-> "", sent |-> <<>>]

\* a return: where in GetAccessToken it happened ("" when the step was no
\* return), the call's argument, the requests it sent, what it returned, and
\* the token response it cached, if any
NoReturn ==
    [from |-> "", product |-> "", sent |-> <<>>, token |-> "", err |-> NilError,
     exchanged |-> <<>>]

\* CacheValid that never trusts the cache
CacheValid_Never(token, expiry, t) == FALSE

\* CacheValid with the comparison the wrong way round
CacheValid_Swapped(token, expiry, t) == token # "" /\ Before(expiry, TimeOf(t))

\* CacheValid that still serves the token at the instant of its expiry
CacheValid_AtExpiry(token, expiry, t) == token # "" /\ ~Before(expiry, TimeOf(t))

\* CacheValid without the test for an empty token
CacheValid_AnyToken(token, expiry, t) == Before(TimeOf(t), expiry)

\* s.accessToken != "" && time.Now().Before(s.tokenExpiry)
CacheValid(token, expiry, t) == token # "" /\ Before(TimeOf(t), expiry)

\* NeedsProvisioning that asks for both to be empty
NeedsProvisioning_BothEmpty(c) ==
    c.Environment = Sandbox /\ c.APIUser = "" /\ c.APIKey = ""

\* s.config.Environment == Sandbox && (apiUser == "" || apiKey == "")
NeedsProvisioning(c) ==
    c.Environment = Sandbox /\ (c.APIUser = "" \/ c.APIKey = "")

\* the switch on product: the token path and the subscription key (no path in
\* the default case, which returns)
TokenEndpoint(c, product) ==
    CASE product = "collection" ->
           [path |-> <<"/collection/token/">>, key |-> c.SubscriptionKey]
      [] product = "disbursement" ->
           [path |-> <<"/disbursement/token/">>, key |-> c.DisbursementKey]
      [] OTHER -> [path |-> <<>>, key |-> ""]

\* ExpiryDuration without the minute of margin
ExpiryDuration_NoMargin(expiresIn) == Seconds(expiresIn)

\* time.Duration(tokenResp.ExpiresIn-60) * time.Second
ExpiryDuration(expiresIn) == Seconds(SubB(expiresIn, I64(60)))

\* time.Now().Add(time.Duration(tokenResp.ExpiresIn-60) * time.Second)
ExpiryTime(t, expiresIn) == TimeAdd(TimeOf(t), ExpiryDuration(expiresIn))

\* the request of CreateAPIUser
CreateUserRequest(c, apiUserID) ==
    Request("POST", <<"/v1_0/apiuser">>, Payload(c.CallbackHost),
            [XReferenceId |-> apiUserID, OcpApimSubscriptionKey |-> c.SubscriptionKey])

\* the request of CreateAPIKey
CreateKeyRequest(c, apiUserID) ==
    Request("POST", <<"/v1_0/apiuser/", apiUserID, "/apikey">>, <<>>,
            [OcpApimSubscriptionKey |-> c.SubscriptionKey])

\* the token request of GetAccessToken
TokenRequest(c, product, apiUser, apiKey) ==
    Request("POST", TokenEndpoint(c, product).path, <<>>,
            [Authorization |-> CreateBasicAuthHeader(apiUser, apiKey),
             OcpApimSubscriptionKey |-> TokenEndpoint(c, product).key])

\* Return whose Unlock is not deferred: it runs only before the last return
Return_UnlockAtEnd(p, token, err, c, exchanged) ==
    /\ pc' = [pc EXCEPT ![p] = "idle"]
    /\ call' = [call EXCEPT ![p] = NoCall]
    /\ last' = [from |-> pc[p], product |-> c.product, sent |-> c.sent,
                token |-> token, err |-> err, exchanged |-> exchanged]
    /\ tokenMutex' = IF exchanged # <<>> THEN <<>> ELSE tokenMutex
    /\ operation' = [operation EXCEPT ![p] =
                        IF @.state = "token"
                        THEN [@ EXCEPT !.state = "dispatch", !.token = token, !.err = err]
                        ELSE @]

\* p leaves GetAccessToken with (token, err); the deferred Unlock runs
Return(p, token, err, c, exchanged) ==
    /\ pc' = [pc EXCEPT ![p] = "idle"]
    /\ call' = [call EXCEPT ![p] = NoCall]
    /\ last' = [from |-> pc[p], product |-> c.product, sent |-> c.sent,
                token |-> token, err |-> err, exchanged |-> exchanged]
    /\ tokenMutex' = <<>>
    /\ operation' = [operation EXCEPT ![p] =
                        IF @.state = "token"
                        THEN [@ EXCEPT !.state = "dispatch", !.token = token, !.err = err]
                        ELSE @]

\* p sends req through DoRequest and waits for the answer at pc where, or
\* returns the error DoRequest ends with before sending, wrapped in msg; net is
\* the requests of others still unanswered
Send(p, req, kind, where, msg, c, net) ==
    LET e == DoRequestSend(config.Host, req)
    IN  IF e # NilError
        THEN /\ Return(p, "", Wrap(msg, e), c, <<>>)
             /\ inflight' = net
        ELSE /\ pc' = [pc EXCEPT ![p] = where]
             /\ call' = [call EXCEPT ![p] = [c EXCEPT !.sent = Append(@, kind)]]
             /\ inflight' = net \cup {[from |-> p, kind |-> kind, req |-> req]}
             /\ last' = NoReturn
             /\ UNCHANGED <<tokenMutex, operation>>

\* the switch on product, then the token request
Exchange(p, c, net) ==
    IF TokenEndpoint(config, c.product).path = <<>>
    THEN /\ Return(p, "", Errorf("unknown product"), c, <<>>)
         /\ inflight' = net
    ELSE Send(p, TokenRequest(config, c.product, c.apiUser, c.apiKey), "token",
              "exchange", "failed to fetch access token", c, net)

\* a goroutine calls GetAccessToken(ctx, product) and reaches s.tokenMutex.Lock()
Call(p, product) ==
    /\ pc[p] = "idle"
    /\ pc' = [pc EXCEPT ![p] = "lock"]
    /\ call' = [call EXCEPT ![p] = [NoCall EXCEPT !.product = product]]
    /\ last' = NoReturn
    /\ UNCHANGED <<formatPhone, newConfig, doRequest, config, accessToken, tokenExpiry,
                   tokenMutex, now, inflight, cached, created, operation>>

\* Lock that does not wait for the mutex to be free
Lock_NoWait(p) ==
    /\ pc[p] = "lock"
    /\ tokenMutex' = <<p>>
    /\ pc' = [pc EXCEPT ![p] = "check"]
    /\ last' = NoReturn
    /\ UNCHANGED <<formatPhone, newConfig, doRequest, config, accessToken, tokenExpiry,
                   now, call, inflight, cached, created, operation>>

\* s.tokenMutex.Lock() returns
Lock(p) ==
    /\ pc[p] = "lock"
    /\ tokenMutex = <<>>
    /\ tokenMutex' = <<p>>
    /\ pc' = [pc EXCEPT ![p] = "check"]
    /\ last' = NoReturn
    /\ UNCHANGED <<formatPhone, newConfig, doRequest, config, accessToken, tokenExpiry,
                   now, call, inflight, cached, created, operation>>

\* the cache check, and on a miss everything up to the first HTTP request
Check(p) ==
    /\ pc[p] = "check"
    /\ IF CacheValid(accessToken, tokenExpiry, now)
       THEN /\ Return(p, accessToken, NilError, call[p], <<>>)
            /\ UNCHANGED <<inflight, created>>
       ELSE LET c == [call[p] EXCEPT !.apiUser = config.APIUser,
                                     !.apiKey = config.APIKey]
            IN  IF NeedsProvisioning(config)
                THEN \* CreateAPIUser: apiUserID := uuid.New().String()
                     /\ created < MaxUsers
                     /\ created' = created + 1
                     /\ Send(p, CreateUserRequest(config, NewUUID(created + 1)),
                             "createUser", "createUser", "failed to create API user",
                             [c EXCEPT !.uuid = NewUUID(created + 1)], inflight)
                ELSE /\ Exchange(p, c, inflight)
                     /\ UNCHANGED created
    /\ UNCHANGED <<formatPhone, newConfig, doRequest, config, accessToken, tokenExpiry,
                   now, cached>>

\* the answer to CreateAPIUser's request arrives; on success CreateAPIKey sends its own
CreateUserResponse(p, rt) ==
    /\ pc[p] = "createUser"
    /\ \E m \in inflight :
         /\ m.from = p
         /\ LET r == DoRequestReceive(rt, <<>>)
                c == [call[p] EXCEPT !.apiUser = call[p].uuid]
            IN  IF r.err # NilError
                THEN /\ Return(p, "", Wrap("failed to create API user", r.err), call[p], <<>>)
                     /\ inflight' = inflight \ {m}
                ELSE Send(p, CreateKeyRequest(config, c.apiUser), "createKey",
                          "createKey", "failed to create API key", c, inflight \ {m})
    /\ UNCHANGED <<formatPhone, newConfig, doRequest, config, accessToken, tokenExpiry,
                   now, cached, created>>

\* the answer to CreateAPIKey's request arrives; on success the token request is sent
CreateKeyResponse(p, rt) ==
    /\ pc[p] = "createKey"
    /\ \E m \in inflight :
         /\ m.from = p
         /\ LET r == DoRequestReceive(rt, ZeroAPIKeyResult)
                c == [call[p] EXCEPT !.apiKey = r.result[1].apiKey.str]
            IN  IF r.err # NilError
                THEN /\ Return(p, "", Wrap("failed to create API key", r.err), call[p], <<>>)
                     /\ inflight' = inflight \ {m}
                ELSE Exchange(p, c, inflight \ {m})
    /\ UNCHANGED <<formatPhone, newConfig, doRequest, config, accessToken, tokenExpiry,
                   now, cached, created>>

\* ExchangeResponse that sends the token request again when it has failed
ExchangeResponse_Retry(p, rt) ==
    /\ pc[p] = "exchange"
    /\ \E m \in inflight :
         /\ m.from = p
         /\ LET r == DoRequestReceive(rt, ZeroTokenResponse)
                tokenResp == r.result[1]
            IN  IF r.err # NilError
                THEN /\ Send(p, m.req, "token", "exchange",
                             "failed to fetch access token", call[p], inflight \ {m})
                     /\ UNCHANGED <<accessToken, tokenExpiry, cached>>
                ELSE /\ inflight' = inflight \ {m}
                     /\ accessToken' = tokenResp.access_token.str
                     /\ tokenExpiry' = ExpiryTime(now, tokenResp.expires_in.num)
                     /\ cached' = [any |-> TRUE, product |-> call[p].product,
                                   token |-> tokenResp.access_token.str]
                     /\ Return(p, tokenResp.access_token.str, NilError, call[p],
                               <<tokenResp>>)
    /\ UNCHANGED <<formatPhone, newConfig, doRequest, config, now, created>>

\* ExchangeResponse that drops the cached token when the exchange has failed
ExchangeResponse_DropOnError(p, rt) ==
    /\ pc[p] = "exchange"
    /\ \E m \in inflight :
         /\ m.from = p
         /\ inflight' = inflight \ {m}
         /\ LET r == DoRequestReceive(rt, ZeroTokenResponse)
                tokenResp == r.result[1]
            IN  IF r.err # NilError
                THEN /\ Return(p, "", Wrap("failed to fetch access token", r.err), call[p], <<>>)
                     /\ accessToken' = ""
                     /\ tokenExpiry' = ZeroTime
                     /\ UNCHANGED cached
                ELSE /\ accessToken' = tokenResp.access_token.str
                     /\ tokenExpiry' = ExpiryTime(now, tokenResp.expires_in.num)
                     /\ cached' = [any |-> TRUE, product |-> call[p].product,
                                   token |-> tokenResp.access_token.str]
                     /\ Return(p, tokenResp.access_token.str, NilError, call[p],
                               <<tokenResp>>)
    /\ UNCHANGED <<formatPhone, newConfig, doRequest, config, now, created>>

\* the answer to the token request arrives: the token is cached and returned
ExchangeResponse(p, rt) ==
    /\ pc[p] = "exchange"
    /\ \E m \in inflight :
         /\ m.from = p
         /\ inflight' = inflight \ {m}
         /\ LET r == DoRequestReceive(rt, ZeroTokenResponse)
                tokenResp == r.result[1]
            IN  IF r.err # NilError
                THEN /\ Return(p, "", Wrap("failed to fetch access token", r.err), call[p], <<>>)
                     /\ UNCHANGED <<accessToken, tokenExpiry, cached>>
                ELSE /\ accessToken' = tokenResp.access_token.str
                     /\ tokenExpiry' = ExpiryTime(now, tokenResp.expires_in.num)
                     /\ cached' = [any |-> TRUE, product |-> call[p].product,
                                   token |-> tokenResp.access_token.str]
                     /\ Return(p, tokenResp.access_token.str, NilError, call[p],
                               <<tokenResp>>)
    /\ UNCHANGED <<formatPhone, newConfig, doRequest, config, now, created>>

\* time passes
Tick ==
    /\ now < MaxTime
    /\ now' = now + 1
    /\ last' = NoReturn
    /\ UNCHANGED <<formatPhone, newConfig, doRequest, config, accessToken, tokenExpiry,
                   tokenMutex, pc, call, inflight, cached, created, operation>>


----------------------------------------------------------------------------
(* CreateAPIUser and CreateAPIKey called by the program itself.  They do   *)
(* not take the mutex.                                                     *)

\* NotSandbox that lets every environment through
NotSandbox_Never(c) == FALSE

\* s.config.Environment != Sandbox
NotSandbox(c) == c.Environment # Sandbox

\* p leaves CreateAPIUser or CreateAPIKey (from) with (value, err)
ProvisionReturn(p, from, value, err, sent) ==
    /\ pc' = [pc EXCEPT ![p] = "idle"]
    /\ call' = [call EXCEPT ![p] = NoCall]
    /\ last' = [from |-> from, product |-> "", sent |-> sent, token |-> "",
                err |-> err, exchanged |-> <<>>, value |-> value]

\* p hands req to DoRequest and waits for the answer at pc where, or returns
\* the error DoRequest ends with before sending, wrapped in msg
ProvisionSend(p, from, req, kind, where, msg, c) ==
    LET e == DoRequestSend(config.Host, req)
    IN  IF e # NilError
        THEN /\ ProvisionReturn(p, from, "", Wrap(msg, e), <<>>)
             /\ UNCHANGED inflight
        ELSE /\ pc' = [pc EXCEPT ![p] = where]
             /\ call' = [call EXCEPT ![p] = [c EXCEPT !.sent = <<kind>>]]
             /\ inflight' = inflight \cup {[from |-> p, kind |-> kind, req |-> req]}
             /\ last' = NoReturn

\* a goroutine calls CreateAPIUser(ctx)
CreateAPIUserCall(p) ==
    /\ pc[p] = "idle"
    /\ operation[p].state = "idle"
    /\ IF NotSandbox(config)
       THEN /\ ProvisionReturn(p, "CreateAPIUser", "",
                    Errorf("creating API users is only available in sandbox mode"), <<>>)
            /\ UNCHANGED <<inflight, created>>
       ELSE /\ created < MaxUsers
            /\ created' = created + 1
            /\ ProvisionSend(p, "CreateAPIUser",
                             CreateUserRequest(config, NewUUID(created + 1)),
                             "createUser", "apiUser", "failed to create API user",
                             [NoCall EXCEPT !.uuid = NewUUID(created + 1)])
    /\ UNCHANGED <<formatPhone, newConfig, doRequest, config, accessToken, tokenExpiry,
                   tokenMutex, now, cached, operation>>

\* the answer to that CreateAPIUser's request arrives
CreateAPIUserResponse(p, rt) ==
    /\ pc[p] = "apiUser"
    /\ \E m \in inflight :
         /\ m.from = p
         /\ inflight' = inflight \ {m}
         /\ LET r == DoRequestReceive(rt, <<>>)
            IN  IF r.err # NilError
                THEN ProvisionReturn(p, "CreateAPIUser", "",
                                     Wrap("failed to create API user", r.err), call[p].sent)
                ELSE ProvisionReturn(p, "CreateAPIUser", call[p].uuid, NilError,
                                     call[p].sent)
    /\ UNCHANGED <<formatPhone, newConfig, doRequest, config, accessToken, tokenExpiry,
                   tokenMutex, now, cached, created, operation>>

\* a goroutine calls CreateAPIKey(ctx, apiUserID)
CreateAPIKeyCall(p, apiUserID) ==
    /\ pc[p] = "idle"
    /\ operation[p].state = "idle"
    /\ IF NotSandbox(config)
       THEN /\ ProvisionReturn(p, "CreateAPIKey", "",
                    Errorf("creating API keys is only available in sandbox mode"), <<>>)
            /\ UNCHANGED inflight
       ELSE ProvisionSend(p, "CreateAPIKey", CreateKeyRequest(config, apiUserID),
                          "createKey", "apiKey", "failed to create API key",
                          [NoCall EXCEPT !.apiUser = apiUserID])
    /\ UNCHANGED <<formatPhone, newConfig, doRequest, config, accessToken, tokenExpiry,
                   tokenMutex, now, cached, created, operation>>

\* the answer to that CreateAPIKey's request arrives
CreateAPIKeyResponse(p, rt) ==
    /\ pc[p] = "apiKey"
    /\ \E m \in inflight :
         /\ m.from = p
         /\ inflight' = inflight \ {m}
         /\ LET r == DoRequestReceive(rt, ZeroAPIKeyResult)
            IN  IF r.err # NilError
                THEN ProvisionReturn(p, "CreateAPIKey", "",
                                     Wrap("failed to create API key", r.err), call[p].sent)
                ELSE ProvisionReturn(p, "CreateAPIKey", r.result[1].apiKey.str, NilError,
                                     call[p].sent)
    /\ UNCHANGED <<formatPhone, newConfig, doRequest, config, accessToken, tokenExpiry,
                   tokenMutex, now, cached, created, operation>>


----------------------------------------------------------------------------
(* CollectionService and DisbursementService.                              *)

Services == {"collection", "disbursement"}

\* the goroutines of a program that calls product operations, or makes its
\* calls one after the other, and the identifiers uuid.New() may return in all
MaxOperators == 1
MaxIds == 4

Operators == 1..MaxOperators

\* the operations of the two services, by what they do
Initiate(service) == IF service = "collection" THEN "RequestToPay" ELSE "Transfer"

StatusOf(service) ==
    IF service = "collection" THEN "GetTransactionStatus" ELSE "GetTransferStatus"

OperationNames(service) ==
    {Initiate(service), StatusOf(service), "GetAccountBalance", "GetAccountHolderInfo"}

\* the operations that begin with phone = formatPhoneNumber(phone)
FormatsPhone(name) == name \in {"RequestToPay", "Transfer", "GetAccountHolderInfo"}

\* ServiceKey with the two keys the wrong way round
ServiceKey_Swapped(c, service) ==
    IF service = "collection" THEN c.DisbursementKey ELSE c.SubscriptionKey

\* the key a service presents: s.config.SubscriptionKey in CollectionService,
\* s.config.DisbursementKey in DisbursementService
ServiceKey(c, service) ==
    IF service = "collection" THEN c.SubscriptionKey ELSE c.DisbursementKey

\* the zero RequestToPayOptions / TransferOptions
ZeroOptions ==
    [IdempotencyKey |-> "", ExternalID |-> "", ReferenceID |-> "", Currency |-> "",
     PayerMessage |-> "", PayeeNote |-> ""]

defaultIfEmpty(value, defaultValue) == IF value = "" THEN defaultValue ELSE value

\* fmt.Sprintf("%.2f", amount) for an amount of whole hundredths
FormatAmount(amount) ==
    <<amount \div 100, ".", (amount % 100) \div 10, amount % 10>>

\* if opts == nil { opts = &Options{} }
OptionsOf(opts) == IF opts = <<>> THEN ZeroOptions ELSE opts[1]

\* the identifiers RequestToPay / Transfer draw from uuid.New(): one for an
\* empty ReferenceID, then one for an empty ExternalID
DrawsReference(opts) == OptionsOf(opts).ReferenceID = ""
DrawsExternal(opts) == OptionsOf(opts).ExternalID = ""
Draws(opts) ==
    (IF DrawsReference(opts) THEN 1 ELSE 0) + (IF DrawsExternal(opts) THEN 1 ELSE 0)

\* ResolveReferenceID that takes a fresh identifier whatever the caller supplied
ResolveReferenceID_AlwaysFresh(opts, n) == NewUUID(n + 1)

\* referenceID := opts.ReferenceID; if referenceID == "" { referenceID = uuid.New().String() }
\* (n identifiers have been drawn so far)
ResolveReferenceID(opts, n) ==
    IF DrawsReference(opts) THEN NewUUID(n + 1) ELSE OptionsOf(opts).ReferenceID

\* externalID := opts.ExternalID; if externalID == "" { externalID = uuid.New().String() }
ResolveExternalID(opts, n) ==
    IF DrawsExternal(opts)
    THEN NewUUID(n + 1 + (IF DrawsReference(opts) THEN 1 ELSE 0))
    ELSE OptionsOf(opts).ExternalID

\* BearerHeader that leaves the token out
BearerHeader_NoToken(token) == <<"Bearer ", "">>

\* "Bearer " + token
BearerHeader(token) == <<"Bearer ", token>>

\* the headers every operation sets
CommonHeaders(c, service, token) ==
    [Authorization |-> BearerHeader(token),
     XTargetEnvironment |-> c.TargetEnvironment,
     OcpApimSubscriptionKey |-> ServiceKey(c, service)]

\* the request of RequestToPay / Transfer
InitiateRequest(c, service, phone, amount, opts, token, n) ==
    LET o == OptionsOf(opts)
        party == [PartyIDType |-> "MSISDN", PartyID |-> phone]
        payload ==
            [Amount |-> FormatAmount(amount),
             Currency |-> defaultIfEmpty(o.Currency, c.Currency),
             ExternalID |-> ResolveExternalID(opts, n),
             Party |-> IF service = "collection" THEN [Payer |-> party]
                       ELSE [Payee |-> party],
             PayerMessage |->
                 defaultIfEmpty(o.PayerMessage,
                                IF service = "collection" THEN "Payment request"
                                ELSE "Disbursement payment"),
             PayeeNote |->
                 defaultIfEmpty(o.PayeeNote,
                                IF service = "collection" THEN "Thank you for your payment"
                                ELSE "Funds received")]
        headers ==
            CommonHeaders(c, service, token)
                @@ [XReferenceId |-> ResolveReferenceID(opts, n)]
        path == IF service = "collection" THEN <<"/collection/v1_0/requesttopay">>
                ELSE <<"/disbursement/v1_0/transfer">>
    IN  Request("POST", path, Payload(payload),
                IF o.IdempotencyKey # ""
                THEN headers @@ [XIdempotencyKey |-> o.IdempotencyKey]
                ELSE headers)

\* the request of GetTransactionStatus / GetTransferStatus
StatusRequest(c, service, referenceID, token) ==
    Request("GET",
            IF service = "collection"
            THEN <<"/collection/v1_0/requesttopay/", referenceID>>
            ELSE <<"/disbursement/v1_0/transfer/", referenceID>>,
            <<>>, CommonHeaders(c, service, token))

\* the request of GetAccountBalance
BalanceRequest(c, service, token) ==
    Request("GET",
            IF service = "collection" THEN <<"/collection/v1_0/account/balance">>
            ELSE <<"/disbursement/v1_0/account/balance">>,
            <<>>, CommonHeaders(c, service, token))

\* the request of GetAccountHolderInfo
HolderInfoRequest(c, service, phone, token) ==
    Request("GET",
            (IF service = "collection" THEN <<"/collection/v1_0/accountholder/MSISDN/">>
             ELSE <<"/disbursement/v1_0/accountholder/MSISDN/">>)
                \o phone \o <<"/basicuserinfo">>,
            <<>>, CommonHeaders(c, service, token))

\* the request an operation dispatches once it has its token
OperationRequest(c, o, n) ==
    CASE o.name \in {"RequestToPay", "Transfer"} ->
           InitiateRequest(c, o.service, o.phone, o.amount, o.opts, o.token, n)
      [] o.name \in {"GetTransactionStatus", "GetTransferStatus"} ->
           StatusRequest(c, o.service, o.referenceID, o.token)
      [] o.name = "GetAccountBalance" -> BalanceRequest(c, o.service, o.token)
      [] o.name = "GetAccountHolderInfo" ->
           HolderInfoRequest(c, o.service, o.phone, o.token)

\* the output slot an operation passes to DoRequest: nil for RequestToPay and
\* Transfer, else a pointer to a zero struct (for the status, the fields that
\* are strings at the top level)
OperationSlot(name) ==
    CASE name \in {"RequestToPay", "Transfer"} -> <<>>
      [] name \in {"GetTransactionStatus", "GetTransferStatus"} ->
           <<[amount |-> Str(""), currency |-> Str(""), externalId |-> Str(""),
              status |-> Str(""), reason |-> Str(""),
              financialTransactionId |-> Str("")]>>
      [] name = "GetAccountBalance" ->
           <<[availableBalance |-> Str(""), currency |-> Str("")]>>
      [] name = "GetAccountHolderInfo" ->
           <<[given_name |-> Str(""), family_name |-> Str(""), birthdate |-> Str(""),
              locale |-> Str(""), gender |-> Str(""), status |-> Str("")]>>

\* the message an operation wraps its DoRequest error in
OperationFailure(name) ==
    CASE name = "RequestToPay" -> "error making request-to-pay"
      [] name = "Transfer" -> "error making transfer"
      [] name = "GetTransactionStatus" -> "error checking transaction status"
      [] name = "GetTransferStatus" -> "error checking transfer status"
      [] name = "GetAccountBalance" -> "error getting account balance"
      [] name = "GetAccountHolderInfo" -> "error getting account holder info"

\* what an operation returns beside its error: on failure "" (or nil, or two
\* ""), on success the reference ID, or the decoded struct (its two fields for
\* GetAccountBalance)
OperationValue(name, failed, referenceID, result) ==
    CASE name \in {"RequestToPay", "Transfer"} ->
           IF failed THEN <<"">> ELSE <<referenceID>>
      [] name = "GetAccountBalance" ->
           IF failed THEN <<"", "">>
           ELSE <<result[1].availableBalance.str, result[1].currency.str>>
      [] OTHER -> IF failed THEN <<>> ELSE result

\* p leaves its operation with (value, err); request is what it dispatched and
\* answer what the transport returned for it (<<>> when there was none)
OperationReturn(p, value, err, request, answer) ==
    /\ operation' = [operation EXCEPT ![p] = NoOperation]
    /\ last' = [from |-> operation[p].name, product |-> operation[p].service,
                sent |-> <<>>, token |-> operation[p].token, err |-> err,
                exchanged |-> <<>>, operation |-> operation[p],
                request |-> request, answer |-> answer, value |-> value]

\* a goroutine calls an operation of a service: the phone number is
\* normalised and GetAccessToken(ctx, service) is entered
OperationCall(p, service, name, phone, referenceID, amount, opts) ==
    /\ pc[p] = "idle"
    /\ operation[p].state = "idle"
    /\ operation' = [operation EXCEPT ![p] =
                        [NoOperation EXCEPT
                            !.state = "token", !.service = service, !.name = name,
                            !.phone = IF FormatsPhone(name) THEN formatPhoneNumber(phone)
                                      ELSE <<>>,
                            !.referenceID = referenceID, !.amount = amount,
                            !.opts = opts]]
    /\ pc' = [pc EXCEPT ![p] = "lock"]
    /\ call' = [call EXCEPT ![p] = [NoCall EXCEPT !.product = service]]
    /\ last' = NoReturn
    /\ UNCHANGED <<formatPhone, newConfig, doRequest, config, accessToken, tokenExpiry,
                   tokenMutex, now, inflight, cached, created>>

\* GetAccessToken has returned to the operation: on an error the operation
\* returns it, else it builds its request and hands it to DoRequest
Dispatch(p) ==
    /\ operation[p].state = "dispatch"
    /\ LET o == operation[p]
           initiates == o.name \in {"RequestToPay", "Transfer"}
           n == IF initiates THEN Draws(o.opts) ELSE 0
           req == OperationRequest(config, o, created)
           e == DoRequestSend(config.Host, req)
       IN  IF o.err # NilError
           THEN /\ OperationReturn(p, OperationValue(o.name, TRUE, "", <<>>),
                                   Wrap("error getting access token", o.err), <<>>, <<>>)
                /\ UNCHANGED <<inflight, created>>
           ELSE /\ created + n <= MaxIds
                /\ created' = created + n
                /\ IF e # NilError
                   THEN /\ OperationReturn(p, OperationValue(o.name, TRUE, "", <<>>),
                                           Wrap(OperationFailure(o.name), e), <<>>, <<>>)
                        /\ UNCHANGED inflight
                   ELSE /\ operation' =
                              [operation EXCEPT ![p] =
                                  [o EXCEPT !.state = "response",
                                            !.referenceID =
                                                IF initiates
                                                THEN ResolveReferenceID(o.opts, created)
                                                ELSE @]]
                        /\ inflight' = inflight \cup
                                          {[from |-> p, kind |-> o.name, req |-> req]}
                        /\ last' = NoReturn
    /\ UNCHANGED <<formatPhone, newConfig, doRequest, config, accessToken, tokenExpiry,
                   tokenMutex, now, pc, call, cached>>

\* the answer to the operation's request arrives and the operation returns
OperationResponse(p, rt) ==
    /\ operation[p].state = "response"
    /\ \E m \in inflight :
         /\ m.from = p
         /\ inflight' = inflight \ {m}
         /\ LET o == operation[p]
                r == DoRequestReceive(rt, OperationSlot(o.name))
            IN  IF r.err # NilError
                THEN OperationReturn(p, OperationValue(o.name, TRUE, "", <<>>),
                                     Wrap(OperationFailure(o.name), r.err), <<m.req>>,
                                     <<rt>>)
                ELSE OperationReturn(p, OperationValue(o.name, FALSE, o.referenceID,
                                                       r.result),
                                     NilError, <<m.req>>, <<rt>>)
    /\ UNCHANGED <<formatPhone, newConfig, doRequest, config, accessToken, tokenExpiry,
                   tokenMutex, now, pc, call, cached, created>>


\* What the server may answer.
Tokens == {"T1", "T2"}

ExpiresIns == {I64(60), I64(62)}

CreateUserAnswers ==
    {TransportError("timeout"), Response(201, EmptyBody),
     Response(409, TextBody("Conflict"))}

CreateKeyAnswers ==
    {Response(201, ObjectBody([apiKey |-> Str("key-1")])),
     Response(201, EmptyBody), Response(403, TextBody("Forbidden"))}

TokenAnswers ==
    {TransportError("timeout"), Response(403, TextBody("Forbidden")),
     Response(200, TextBody("<html>")),
     Response(200, ObjectBody([expires_in |-> Num(I64(62))]))}
    \cup {Response(200, ObjectBody([access_token |-> Str(t), expires_in |-> Num(e)])) :
            t \in Tokens, e \in ExpiresIns}

\* The configs the service may run with: what NewConfig returns for a sandbox
\* or production program that sets its keys, with or without a disbursement
\* key, an API user and an API key.
AuthOptionSeqs ==
    LET base == <<With("SubscriptionKey", "sub-key"), With("TargetEnvironment", "env"),
                  With("Host", "host"), With("Currency", "EUR")>>
    IN  {base,
         base \o <<With("DisbursementKey", "dis-key"), With("APIKey", "key")>>,
         base \o <<With("DisbursementKey", "dis-key"), With("APIUser", "user"),
                   With("APIKey", "key")>>}

NoEnv == [v \in EnvVars |-> ""]

AuthConfigs ==
    {r.config[1] :
        r \in {q \in {NewConfig(e, o, NoEnv) : e \in {Sandbox, Production},
                                               o \in AuthOptionSeqs} : q.err = ""}}

NotCached ==
    [any |-> FALSE, product |-> "", token |-> ""]

\* NewAuthService(client, config)
NewAuthService(c) ==
    /\ config = c
    /\ accessToken = ""
    /\ tokenExpiry = ZeroTime
    /\ tokenMutex = <<>>
    /\ now = 0
    /\ pc = [p \in Callers |-> "idle"]
    /\ call = [p \in Callers |-> NoCall]
    /\ inflight = {}
    /\ cached = NotCached
    /\ last = NoReturn
    /\ created = 0
    /\ operation = [p \in Callers |-> NoOperation]

Init ==
    /\ formatPhone = FormatPhoneIdle
    /\ newConfig = NewConfigIdle
    /\ doRequest = DoRequestIdle
    /\ \E c \in AuthConfigs : NewAuthService(c)

Next ==
    \/ \E p \in Callers, product \in Products : Call(p, product)
    \/ \E p \in Callers : Lock(p)
    \/ \E p \in Callers : Check(p)
    \/ \E p \in Callers, rt \in CreateUserAnswers : CreateUserResponse(p, rt)
    \/ \E p \in Callers, rt \in CreateKeyAnswers : CreateKeyResponse(p, rt)
    \/ \E p \in Callers, rt \in TokenAnswers : ExchangeResponse(p, rt)
    \/ Tick

Spec == Init /\ [][Next]_vars

\* NewConfig alone
InitConfig ==
    /\ formatPhone = FormatPhoneIdle
    /\ newConfig = NewConfigIdle
    /\ doRequest = DoRequestIdle
    /\ NewAuthService(ZeroConfig)

SpecConfig == InitConfig /\ [][NewConfigCall]_vars

\* DoRequest alone
SpecDispatch == InitConfig /\ [][DoRequestCall]_vars


\* formatPhoneNumber alone
SpecPhone == InitConfig /\ [][FormatPhoneCall]_vars


\* The product operations, each through GetAccessToken.
OperationPhones == {<<"0", "7", "3", "3">>}

OperationOptions ==
    {<<>>,
     <<[ZeroOptions EXCEPT !.ReferenceID = "ref-1", !.ExternalID = "ext-1",
                           !.IdempotencyKey = "idem-1", !.Currency = "LRD"]>>}

\* the calls a program makes: the arguments an operation does not take are zero
OperationInputs ==
    LET in(service, name, phone, referenceID, amount, opts) ==
            [service |-> service, name |-> name, phone |-> phone,
             referenceID |-> referenceID, amount |-> amount, opts |-> opts]
    IN  UNION {
          {in(sv, Initiate(sv), ph, "", 1050, o) :
              ph \in OperationPhones, o \in OperationOptions}
          \cup {in(sv, StatusOf(sv), <<>>, "ref-1", 0, <<>>),
                in(sv, "GetAccountBalance", <<>>, "", 0, <<>>)}
          \cup {in(sv, "GetAccountHolderInfo", ph, "", 0, <<>>) : ph \in OperationPhones}
          : sv \in Services}

OperationAnswers ==
    {TransportError("timeout"), Response(202, EmptyBody),
     Response(200, ObjectBody([status |-> Str("SUCCESSFUL"), currency |-> Str("EUR"),
                               availableBalance |-> Str("100"),
                               given_name |-> Str("Ada")])),
     Response(500, TextBody("Internal Server Error"))}

\* what the token endpoint answers a program that runs operations
OperationTokenAnswers ==
    {TransportError("timeout"),
     Response(200, ObjectBody([access_token |-> Str("T1"), expires_in |-> Num(I64(62))])),
     Response(200, ObjectBody([access_token |-> Str("T2"), expires_in |-> Num(I64(60))]))}

NextProduct ==
    \/ \E p \in Operators, o \in OperationInputs :
         OperationCall(p, o.service, o.name, o.phone, o.referenceID, o.amount, o.opts)
    \/ \E p \in Operators : Lock(p)
    \/ \E p \in Operators : Check(p)
    \/ \E p \in Operators, rt \in CreateUserAnswers : CreateUserResponse(p, rt)
    \/ \E p \in Operators, rt \in CreateKeyAnswers : CreateKeyResponse(p, rt)
    \/ \E p \in Operators, rt \in OperationTokenAnswers : ExchangeResponse(p, rt)
    \/ \E p \in Operators : Dispatch(p)
    \/ \E p \in Operators, rt \in OperationAnswers : OperationResponse(p, rt)

\* a sandbox program that leaves provisioning to the library, or a production
\* program with its credentials and a disbursement key of its own
InitProduct ==
    /\ formatPhone = FormatPhoneIdle
    /\ newConfig = NewConfigIdle
    /\ doRequest = DoRequestIdle
    /\ \E c \in AuthConfigs :
         /\ \/ c.Environment = Sandbox /\ c.APIUser = "" /\ c.APIKey = ""
            \/ c.Environment = Production /\ c.APIUser # "" /\ c.APIKey # ""
         /\ NewAuthService(c)

SpecProduct == InitProduct /\ [][NextProduct]_vars


\* The program provisions by itself, beside calling GetAccessToken, under
\* any environment a config can be built for.
ProvisionConfigs ==
    AuthConfigs
    \cup {r.config[1] :
            r \in {q \in {NewConfig("staging", o, NoEnv) : o \in AuthOptionSeqs} :
                     q.err = ""}}

\* the user IDs a program passes to CreateAPIKey: one of its own, or one that
\* CreateAPIUser returned
APIUserIDs == {"user", NewUUID(1)}

InitProvision ==
    /\ formatPhone = FormatPhoneIdle
    /\ newConfig = NewConfigIdle
    /\ doRequest = DoRequestIdle
    /\ \E c \in ProvisionConfigs : NewAuthService(c)

NextProvision ==
    \/ \E p \in Callers : CreateAPIUserCall(p)
    \/ \E p \in Callers, rt \in CreateUserAnswers : CreateAPIUserResponse(p, rt)
    \/ \E p \in Callers, id \in APIUserIDs : CreateAPIKeyCall(p, id)
    \/ \E p \in Callers, rt \in CreateKeyAnswers : CreateAPIKeyResponse(p, rt)
    \/ \E p \in Callers, product \in KnownProducts : Call(p, product)
    \/ \E p \in Callers : Lock(p)
    \/ \E p \in Callers : Check(p)
    \/ \E p \in Callers, rt \in CreateUserAnswers : CreateUserResponse(p, rt)
    \/ \E p \in Callers, rt \in CreateKeyAnswers : CreateKeyResponse(p, rt)
    \/ \E p \in Callers, rt \in OperationTokenAnswers : ExchangeResponse(p, rt)

SpecProvision == InitProvision /\ [][NextProvision]_vars


\* The token exchange alone, for a production program with both credentials,
\* over expires_in values up to the ends of Go's int.
MaxDelta == 2

\* the largest expires_in whose Duration fits an int64 of nanoseconds:
\* 9223372036 + 60
MaxExpiresIn == AddB(MulB(I64(9223372), I64(1000)), I64(96))

\* the smallest: -9223372036 + 60
MinExpiresIn == SubB(I64(120), MaxExpiresIn)

MaxInt64 == [i \in 1..Int64Bytes |-> IF i = Int64Bytes THEN 127 ELSE 255]
MinInt64 == [i \in 1..Int64Bytes |-> IF i = Int64Bytes THEN 128 ELSE 0]

WideExpiresIns ==
    {AddB(a, I64(d)) :
        a \in {I64(0), I64(60), I64(3600), MaxExpiresIn, MinExpiresIn,
               MaxInt64, MinInt64},
        d \in -MaxDelta..MaxDelta}

ExpiryAnswers ==
    {Response(200, ObjectBody([access_token |-> Str("T1"), expires_in |-> Num(e)])) :
        e \in WideExpiresIns}

InitExpiry ==
    /\ formatPhone = FormatPhoneIdle
    /\ newConfig = NewConfigIdle
    /\ doRequest = DoRequestIdle
    /\ \E c \in AuthConfigs :
         /\ c.Environment = Production
         /\ c.APIUser # "" /\ c.APIKey # ""
         /\ NewAuthService(c)

NextExpiry ==
    \/ \E p \in Callers : Call(p, "collection")
    \/ \E p \in Callers : Lock(p)
    \/ \E p \in Callers : Check(p)
    \/ \E p \in Callers, rt \in ExpiryAnswers : ExchangeResponse(p, rt)
    \/ Tick

SpecExpiry == InitExpiry /\ [][NextExpiry]_vars


\* GetAccessToken for the two products under every config, the token endpoint
\* answering with either token and an expires_in around 60 or at the low end
\* of Go's int.
RefetchExpiresIns ==
    {I64(0), I64(59), I64(60), I64(61), MinExpiresIn, SubB(MinExpiresIn, I64(1)),
     MinInt64}

RefetchAnswers ==
    {TransportError("timeout")}
    \cup {Response(200, ObjectBody([access_token |-> Str(t), expires_in |-> Num(e)])) :
            t \in Tokens, e \in RefetchExpiresIns}

NextRefetch ==
    \/ \E p \in Operators, product \in KnownProducts : Call(p, product)
    \/ \E p \in Operators : Lock(p)
    \/ \E p \in Operators : Check(p)
    \/ \E p \in Operators, rt \in CreateUserAnswers : CreateUserResponse(p, rt)
    \/ \E p \in Operators, rt \in CreateKeyAnswers : CreateKeyResponse(p, rt)
    \/ \E p \in Operators, rt \in RefetchAnswers : ExchangeResponse(p, rt)
    \/ Tick

SpecRefetch == Init /\ [][NextRefetch]_vars

\* Progress.  A call starts only while the ids left cover every call that may
\* still draw one, so that the bound on the ids never stops a call half way.
CallWithinBudget(p, product) ==
    /\ NeedsProvisioning(config) =>
          created + Cardinality({q \in Callers : pc[q] \in {"lock", "check"}}) < MaxUsers
    /\ Call(p, product)

\* one product the switch knows and one it does not
LiveProducts == {"collection", "unknown"}

NextLive ==
    \/ \E p \in Callers, product \in LiveProducts : CallWithinBudget(p, product)
    \/ \E p \in Callers : Lock(p)
    \/ \E p \in Callers : Check(p)
    \/ \E p \in Callers, rt \in CreateUserAnswers : CreateUserResponse(p, rt)
    \/ \E p \in Callers, rt \in CreateKeyAnswers : CreateKeyResponse(p, rt)
    \/ \E p \in Callers, rt \in OperationTokenAnswers : ExchangeResponse(p, rt)

\* Every network call returns (http.Client answers, fails or times out), a
\* running goroutine goes on running, and a goroutine blocked in Lock is not
\* passed over for ever: sync.Mutex hands the lock to a waiter that has waited
\* for more than a millisecond (starvation mode).
Fairness ==
    \A p \in Callers :
        /\ SF_vars(Lock(p))
        /\ WF_vars(Check(p))
        /\ WF_vars(\E rt \in CreateUserAnswers : CreateUserResponse(p, rt))
        /\ WF_vars(\E rt \in CreateKeyAnswers : CreateKeyResponse(p, rt))
        /\ WF_vars(\E rt \in OperationTokenAnswers : ExchangeResponse(p, rt))

SpecLive == InitProduct /\ [][NextLive]_vars /\ Fairness


----------------------------------------------------------------------------
(* The claims.                                                             *)

\* the cached expiry is strictly after the current time
Unexpired == Before(TimeOf(now), tokenExpiry)

\* the step takes p out of the cache check with a cache hit: the cached token,
\* no error, no request sent, the cache left as it was
HitStep(p) ==
    /\ pc'[p] = "idle"
    /\ last'.token = cached.token
    /\ last'.token = accessToken
    /\ last'.err = NilError
    /\ last'.sent = <<>>
    /\ inflight' = inflight
    /\ UNCHANGED <<accessToken, tokenExpiry, cached>>

\* C1 as stated: once a call has succeeded and written the cache, a call whose
\* cache check runs strictly before the cached expiry sends no request and
\* returns the token that call returned.
C1_Original ==
    [][\A p \in Callers :
         (pc[p] = "check" /\ pc'[p] # "check" /\ cached.any /\ Unexpired)
            => HitStep(p)]_vars

\* C1, amended: once a call has succeeded and cached a non-empty token, a call
\* whose cache check runs strictly before the cached expiry sends no request
\* and returns the token that call returned.
C1_CacheHit ==
    [][\A p \in Callers :
         (pc[p] = "check" /\ pc'[p] # "check" /\ cached.any /\ cached.token # ""
             /\ Unexpired)
            => HitStep(p)]_vars

\* a call has just returned a cached, non-empty token without sending anything
C1_Witness ==
    /\ last.from = "check" /\ last.err = NilError /\ last.sent = <<>>
    /\ last.token # "" /\ last.token = cached.token
    /\ cached.any /\ Unexpired

\* C2: a call with a product other than "collection" and "disbursement" fails
\* with the unknown-product error and sends no request, whatever the state.
C2_UnknownProduct ==
    (last.from # "" /\ last.product \notin KnownProducts)
        => (last.err = Errorf("unknown product") /\ last.sent = <<>>)

\* the callers between Lock and Unlock
Holders == {p \in Callers : pc[p] \in {"check", "createUser", "createKey", "exchange"}}

\* C3: at most one caller is between Lock and Unlock, it is the one the mutex
\* names, and at most one request of the instance is in flight, the holder's.
C3_Serialized ==
    /\ Cardinality(Holders) <= 1
    /\ Cardinality(inflight) <= 1
    /\ \A p \in Holders : tokenMutex = <<p>>
    /\ \A m \in inflight : m.from \in Holders

\* one caller's token request is in flight while another waits for the mutex
C3_Witness ==
    \E p, q \in Callers :
        /\ p # q /\ pc[p] = "exchange" /\ pc[q] = "lock"
        /\ \E m \in inflight : m.from = p /\ m.kind = "token"

\* the cache holds a token obtained for the other product than p asks for
OtherProductCached(p) ==
    /\ cached.any
    /\ call[p].product \in KnownProducts
    /\ cached.product # call[p].product

\* C4 as stated: a call for one product that follows a call that cached a token
\* for the other goes on to a new token exchange.
C4_Original ==
    [][\A p \in Callers :
         (pc[p] = "check" /\ pc'[p] # "check" /\ OtherProductCached(p))
            => pc'[p] \in {"createUser", "exchange"}]_vars

\* C4, amended: such a call goes on to a new exchange only if the cached token
\* is empty or expired; otherwise it returns the token cached for the other
\* product, sends nothing and leaves the cache as it is.
C4_SharedCache ==
    [][\A p \in Callers :
         (pc[p] = "check" /\ pc'[p] # "check" /\ OtherProductCached(p))
            => IF accessToken # "" /\ Unexpired
               THEN HitStep(p)
               ELSE pc'[p] \in {"createUser", "exchange"}]_vars

\* a call for one product has just been served the token cached for the other
C4_Witness ==
    /\ last.from = "check" /\ last.err = NilError /\ last.token # ""
    /\ last.product \in KnownProducts
    /\ cached.any /\ cached.product \in KnownProducts
    /\ cached.product # last.product
    /\ last.token = cached.token

\* t + (expiresIn - 60) seconds, computed without wrapping
ExactExpiry(t, expiresIn) ==
    AddB(TimeOf(t),
         MulB(SubB(SignExt(expiresIn, WideBytes), Wide(60)), SignExt(Second, WideBytes)))

\* the exchange that has just returned cached the token and the expiry C5 names
CachedAsClaimed ==
    /\ accessToken = last.exchanged[1].access_token.str
    /\ last.token = accessToken
    /\ tokenExpiry = ExactExpiry(now, last.exchanged[1].expires_in.num)

\* (expiresIn - 60) seconds fit a time.Duration
DurationFits(expiresIn) ==
    ~LessB(expiresIn, MinExpiresIn) /\ ~LessB(MaxExpiresIn, expiresIn)

\* C5 as stated: after a successful exchange at time t the cached token is the
\* access_token and the cached expiry is t + (expires_in - 60) s, for every
\* expires_in.
C5_Original == last.exchanged # <<>> => CachedAsClaimed

\* C5, amended: the same for every expires_in from -9223371976 to 9223372096,
\* those for which (expires_in - 60) seconds fit a time.Duration.
C5_Expiry ==
    (last.exchanged # <<>> /\ DurationFits(last.exchanged[1].expires_in.num))
        => CachedAsClaimed

\* an exchange that returned expires_in = 3600 has just cached t + 3540 s
C5_Witness ==
    /\ last.exchanged # <<>>
    /\ last.exchanged[1].expires_in.num = I64(3600)
    /\ tokenExpiry = TimeOf(now + 3540)
    /\ accessToken = "T1"

RequiredFields == {"SubscriptionKey", "TargetEnvironment", "Host", "Currency"}

\* C6: NewConfig returns a config only with the subscription key, the target
\* environment, the host and the currency all non-empty; if one is empty
\* once the options are applied, it returns an error and nil.
C6_RequiredFields ==
    newConfig.state = "returned" =>
        /\ (newConfig.config = <<>>) = (newConfig.err # "")
        /\ newConfig.config # <<>> =>
              \A f \in RequiredFields : newConfig.config[1][f] # ""
        /\ (\E f \in RequiredFields : newConfig.configured[f] = "") =>
              (newConfig.config = <<>> /\ newConfig.err # "")

\* NewConfig has refused a config that lacks only its currency
C6_Witness ==
    /\ newConfig.state = "returned"
    /\ newConfig.configured.Currency = ""
    /\ \A f \in RequiredFields \ {"Currency"} : newConfig.configured[f] # ""
    /\ newConfig.config = <<>>
    /\ newConfig.err = "currency is required"

\* C7: NewConfig(Production, ...) fails whenever the API user or the API key
\* is empty once the options are applied.
C7_ProductionCredentials ==
    (/\ newConfig.state = "returned"
     /\ newConfig.environment = Production
     /\ (newConfig.configured.APIUser = "" \/ newConfig.configured.APIKey = ""))
        => (newConfig.config = <<>> /\ newConfig.err # "")

\* C8: a config validated with an empty disbursement key comes out with its
\* disbursement key equal to its subscription key; a non-empty disbursement
\* key comes out unchanged.
C8_DisbursementDefault ==
    (newConfig.state = "returned" /\ newConfig.config # <<>>) =>
        LET before == newConfig.configured
            after == newConfig.config[1]
        IN  /\ before.DisbursementKey = "" =>
                  after.DisbursementKey = after.SubscriptionKey
            /\ before.DisbursementKey # "" =>
                  after.DisbursementKey = before.DisbursementKey

\* NewConfig has returned a config whose empty disbursement key was defaulted
C8_Witness ==
    /\ newConfig.state = "returned" /\ newConfig.config # <<>>
    /\ newConfig.configured.DisbursementKey = ""
    /\ newConfig.config[1].DisbursementKey = newConfig.config[1].SubscriptionKey
    /\ newConfig.config[1].DisbursementKey # ""

\* the stand-alone DoRequest call got a response from the transport
Responded ==
    /\ doRequest.state = "returned"
    /\ doRequest.ret.sent = 1
    /\ doRequest.rt.err = ""

\* DoRequest returned the API-request-failure error
APIRequestFailed ==
    doRequest.ret.err.chain = <<"API request failed with status code">>

\* C9: DoRequest fails with the API-request-failure error exactly when the
\* status is outside [200,300); the error then carries the status code and
\* the response body as received, and the output slot is not decoded into.
C9_FailureStatus ==
    Responded =>
        /\ APIRequestFailed = ~(200 <= doRequest.rt.status /\ doRequest.rt.status < 300)
        /\ APIRequestFailed =>
              /\ doRequest.ret.err.status = doRequest.rt.status
              /\ doRequest.ret.err.body = doRequest.rt.body
              /\ doRequest.ret.result = doRequest.result

\* a 403 with a JSON body and an output slot has produced the failure error
C9_Witness ==
    /\ Responded /\ APIRequestFailed
    /\ doRequest.rt.status = 403
    /\ doRequest.rt.body.kind = "object"
    /\ doRequest.result # <<>>
    /\ doRequest.ret.err.status = 403
    /\ doRequest.ret.result = doRequest.result

\* C10: on a 204 DoRequest returns nil and leaves the output slot as it was,
\* whether or not a slot is supplied and whatever the body.
C10_NoContent ==
    (Responded /\ doRequest.rt.status = StatusNoContent) =>
        /\ doRequest.ret.err = NilError
        /\ doRequest.ret.result = doRequest.result

\* a 204 with an empty body and an output slot has returned nil
C10_Witness ==
    /\ Responded /\ doRequest.rt.status = StatusNoContent
    /\ doRequest.rt.body = EmptyBody
    /\ doRequest.result # <<>>
    /\ doRequest.ret.err = NilError
    /\ doRequest.ret.result = doRequest.result

\* C11: a 2xx response other than 204 with an empty body and an output slot
\* supplied completes without a decode error, the slot left as it was (the
\* decode is attempted only when the body is non-empty).
C11_EmptyBody ==
    (/\ Responded
     /\ ~FailureStatus(doRequest.rt.status)
     /\ doRequest.rt.status # StatusNoContent
     /\ doRequest.result # <<>>
     /\ doRequest.rt.body = EmptyBody)
        => (doRequest.ret.err = NilError /\ doRequest.ret.result = doRequest.result)

\* the phone number with every character that is not a digit taken out
Stripped(phone) == SelectSeq(phone, IsDigit)

\* C12: formatPhoneNumber strips every non-digit; a result that starts with 0
\* has that 0 replaced by 231; any other result gets 231 in front unless it
\* starts with 231 already, in which case it is returned as it is.
C12_PhoneNormalization ==
    formatPhone.state = "returned" =>
        LET d == Stripped(formatPhone.phone)
            out == formatPhone.out
        IN  /\ (d # <<>> /\ Head(d) = "0") => out = CountryCode \o Tail(d)
            /\ (d = <<>> \/ Head(d) # "0") =>
                  IF HasPrefix(d, CountryCode) THEN out = d
                  ELSE out = CountryCode \o d
            /\ formatPhone.phone \in
                  {<<"0", "7", "3", "3", "1", "2", "3", "4", "5", "4">>, <<"7", "3", "3", "1", "2", "3", "4", "5", "4">>, <<"2", "3", "1", "7", "3", "3", "1", "2", "3", "4", "5", "4">>} =>
                      out = <<"2", "3", "1", "7", "3", "3", "1", "2", "3", "4", "5", "4">>

\* "0733123454" has come out as "231733123454"
C12_Witness ==
    /\ formatPhone.state = "returned"
    /\ formatPhone.phone = <<"0", "7", "3", "3", "1", "2", "3", "4", "5", "4">>
    /\ formatPhone.out = <<"2", "3", "1", "7", "3", "3", "1", "2", "3", "4", "5", "4">>

\* the operation that returned in the last step got a 2xx answer to the
\* request it dispatched
Answered2xx ==
    /\ last.answer # <<>>
    /\ last.answer[1].err = ""
    /\ 200 <= last.answer[1].status /\ last.answer[1].status < 300

\* the identifiers uuid.New() has returned so far
Generated == {NewUUID(i) : i \in 1..created}

\* C13: RequestToPay and Transfer, when the token was obtained and the request
\* got a 2xx answer, return no error and the reference ID sent in
\* X-Reference-Id: the caller's ReferenceID when non-empty, else a generated,
\* non-empty identifier; on any failure they return "" and an error.
C13_ReferenceID ==
    last.from \in {"RequestToPay", "Transfer"} =>
        LET supplied == OptionsOf(last.operation.opts).ReferenceID
        IN  IF last.operation.err = NilError /\ Answered2xx
            THEN /\ last.err = NilError
                 /\ last.value = <<last.request[1].Headers.XReferenceId>>
                 /\ last.value[1] # ""
                 /\ supplied # "" => last.value[1] = supplied
                 /\ supplied = "" => last.value[1] \in Generated
            ELSE /\ last.err # NilError
                 /\ last.value = <<"">>

\* RequestToPay without options got a 202 with an empty body and returned a
\* generated reference ID and no error
C13_Witness ==
    /\ last.from = "RequestToPay"
    /\ last.operation.opts = <<>>
    /\ last.answer = <<Response(202, EmptyBody)>>
    /\ last.err = NilError
    /\ last.value # <<"">>
    /\ last.value[1] \in Generated
    /\ last.value[1] = last.request[1].Headers.XReferenceId

ProvisioningKinds == {"createUser", "createKey"}

\* C14: outside sandbox CreateAPIUser and CreateAPIKey fail at once with an
\* error and send nothing, and no call of the library has a request to
\* /v1_0/apiuser or /v1_0/apiuser/{id}/apikey sent or in flight.
C14_SandboxOnly ==
    config.Environment # Sandbox =>
        /\ \A m \in inflight : m.kind \notin ProvisioningKinds
        /\ \A p \in Callers :
              /\ pc[p] \notin {"createUser", "createKey", "apiUser", "apiKey"}
              /\ \A i \in 1..Len(call[p].sent) : call[p].sent[i] \notin ProvisioningKinds
        /\ \A i \in 1..Len(last.sent) : last.sent[i] \notin ProvisioningKinds
        /\ last.from \in {"CreateAPIUser", "CreateAPIKey"} =>
              (last.err # NilError /\ last.value = "" /\ last.sent = <<>>)

\* in production CreateAPIKey has just failed with the mode error
C14_Witness ==
    /\ config.Environment = Production
    /\ last.from = "CreateAPIKey"
    /\ last.err = Errorf("creating API keys is only available in sandbox mode")
    /\ last.sent = <<>>
    /\ inflight = {}

AllOperationNames == UNION {OperationNames(sv) : sv \in Services}

\* the places GetAccessToken returns from
TokenReturns == {"check", "createUser", "createKey", "exchange"}

\* the product requests of p that the step sends
Dispatched(p) ==
    {m \in inflight' \ inflight : m.from = p /\ m.kind \in AllOperationNames}

\* C15: every product operation begins by calling GetAccessToken and goes on
\* only with what it returned; after an error the operation returns an error
\* and sends nothing; a request it sends follows a successful GetAccessToken
\* and carries "Bearer " + the token that call returned.
C15_TokenFirst ==
    [][\A p \in Callers :
         /\ (operation[p].state = "idle" /\ operation'[p].state # "idle") =>
               /\ operation'[p].state = "token"
               /\ operation'[p].name \in OperationNames(operation'[p].service)
               /\ pc'[p] = "lock"
               /\ call'[p].product = operation'[p].service
               /\ Dispatched(p) = {}
         /\ operation[p].state = "token" =>
               /\ Dispatched(p) = {}
               /\ operation'[p].state # "token" =>
                     /\ operation'[p].state = "dispatch"
                     /\ pc[p] \in TokenReturns /\ pc'[p] = "idle"
                     /\ last'.from = pc[p]
                     /\ operation'[p].token = last'.token
                     /\ operation'[p].err = last'.err
         /\ (operation[p].state = "dispatch" /\ operation[p].err # NilError
                /\ operation'[p] # operation[p]) =>
               /\ Dispatched(p) = {}
               /\ operation'[p].state = "idle"
               /\ last'.from = operation[p].name
               /\ last'.err # NilError
               /\ last'.request = <<>>
         /\ \A m \in Dispatched(p) :
               /\ operation[p].state = "dispatch"
               /\ operation[p].err = NilError
               /\ m.kind = operation[p].name
               /\ m.req.Headers.Authorization = <<"Bearer ", operation[p].token>>]_vars

\* a Transfer's request is in flight, carrying the token its GetAccessToken
\* call returned
C15_Witness ==
    \E p \in Callers :
        /\ operation[p].state = "response"
        /\ operation[p].name = "Transfer"
        /\ operation[p].token = "T1"
        /\ \E m \in inflight :
              /\ m.from = p /\ m.kind = "Transfer"
              /\ m.req.Headers.Authorization = <<"Bearer ", "T1">>

\* the step takes p out of the cache check while the current time is at or
\* after the cached expiry
ChecksExpired(p) == pc[p] = "check" /\ pc'[p] # "check" /\ ~Unexpired

\* a successful exchange whose expires_in is at most 60 has just returned
ExchangedAtMost60 ==
    /\ last.exchanged # <<>>
    /\ ~LessB(I64(60), last.exchanged[1].expires_in.num)

\* a call that went past the cache check has just returned, after sending
\* a token request
ReturnedAfterExchange ==
    last.from \in {"createUser", "createKey", "exchange"} =>
        \E i \in 1..Len(last.sent) : last.sent[i] = "token"

\* a call that went past the cache check has just returned: an error, or the
\* token of the exchange it made
ReturnedErrorOrFresh ==
    /\ last.from \in {"createUser", "createKey"} =>
          (last.err # NilError /\ last.token = "")
    /\ last.from = "exchange" =>
          /\ \E i \in 1..Len(last.sent) : last.sent[i] = "token"
          /\ IF last.err = NilError
             THEN last.exchanged # <<>>
                  /\ last.token = last.exchanged[1].access_token.str
             ELSE last.token = ""

\* C16 as stated: a call (with a valid product) whose cache check runs at or
\* after the cached expiry is not served from the cache and performs a fresh
\* token exchange before it returns; and after an exchange that returned
\* expires_in <= 60 the call succeeds and the cache is expired from then on, so
\* that the next call re-fetches.
C16_Original ==
    /\ [][\A p \in Callers :
            ChecksExpired(p) => pc'[p] \in {"createUser", "exchange"}]_vars
    /\ []ReturnedAfterExchange
    /\ [](ExchangedAtMost60 => (last.err = NilError /\ ~Unexpired))

\* C16, amended: such a call is not served from the cache; it goes on to
\* provisioning where the sandbox needs it and then to a fresh exchange, and
\* returns an error or the token of that exchange; and after an exchange that
\* returned expires_in from -9223371976 to 60 the call succeeds and the cache
\* is expired from then on.
C16_Refetch ==
    /\ [][\A p \in Callers :
            ChecksExpired(p) =>
                /\ pc'[p] \in {"createUser", "exchange"}
                /\ pc'[p] = "createUser" <=> NeedsProvisioning(config)]_vars
    /\ []ReturnedErrorOrFresh
    /\ []((ExchangedAtMost60 /\ DurationFits(last.exchanged[1].expires_in.num)) =>
             (last.err = NilError /\ ~Unexpired))

\* a token that came with expires_in = 60 is cached and expired, and the next
\* call has gone on to a new exchange
C16_Witness ==
    /\ cached.any /\ accessToken # "" /\ ~Unexpired
    /\ tokenExpiry = TimeOf(now)
    /\ \E p \in Callers :
          /\ pc[p] = "exchange"
          /\ \E m \in inflight : m.from = p /\ m.kind = "token"

\* the requests of the given kind that the step sends for p
NewlySent(p, kind) == {m \in inflight' \ inflight : m.from = p /\ m.kind = kind}

\* the API keys the create-key endpoint hands out
ServerKeys == {"key-1"}

\* C17: on a cache miss GetAccessToken provisions if and only if the
\* environment is sandbox and the configured API user or API key is empty;
\* create-user goes first, create-key follows its success and names the user
\* ID just created, the token request follows the success of create-key and
\* carries Basic auth of that user ID and the key received; a failed
\* create-user ends the call before create-key, a failed create-key before
\* the exchange.
C17_Provisioning ==
    [][\A p \in Callers :
         /\ (pc[p] = "check" /\ pc'[p] # "check"
                /\ ~CacheValid(accessToken, tokenExpiry, now)) =>
               /\ pc'[p] = "createUser" <=>
                     (config.Environment = Sandbox
                         /\ (config.APIUser = "" \/ config.APIKey = ""))
               /\ pc'[p] = "createUser" =>
                     /\ NewlySent(p, "createUser") # {}
                     /\ NewlySent(p, "createKey") = {}
                     /\ NewlySent(p, "token") = {}
         /\ \A m \in NewlySent(p, "createUser") :
               /\ pc[p] = "check"
               /\ m.req.Path = <<"/v1_0/apiuser">>
               /\ m.req.Headers.XReferenceId = call'[p].uuid
         /\ \A m \in NewlySent(p, "createKey") :
               /\ pc[p] = "createUser"
               /\ call[p].sent = <<"createUser">>
               /\ m.req.Path = <<"/v1_0/apiuser/", call[p].uuid, "/apikey">>
         /\ \A m \in NewlySent(p, "token") :
               IF pc[p] = "check"
               THEN /\ ~(config.Environment = Sandbox
                            /\ (config.APIUser = "" \/ config.APIKey = ""))
                    /\ m.req.Headers.Authorization =
                          <<"Basic ", [base64 |-> <<config.APIUser, ":", config.APIKey>>]>>
               ELSE /\ pc[p] = "createKey"
                    /\ call[p].sent = <<"createUser", "createKey">>
                    /\ \E k \in ServerKeys :
                          m.req.Headers.Authorization =
                              <<"Basic ", [base64 |-> <<call[p].uuid, ":", k>>]>>
         /\ pc[p] = "createUser" =>
               /\ pc'[p] \in {"createUser", "createKey", "idle"}
               /\ pc'[p] = "idle" =>
                     /\ last'.err # NilError
                     /\ last'.err.chain[1] = "failed to create API user"
                     /\ last'.sent = <<"createUser">>
         /\ pc[p] = "createKey" =>
               /\ pc'[p] \in {"createKey", "exchange", "idle"}
               /\ (pc'[p] = "exchange" /\ call[p].product \in KnownProducts) =>
                     NewlySent(p, "token") # {}
               /\ (pc'[p] = "idle" /\ call[p].product \in KnownProducts) =>
                     /\ last'.err # NilError
                     /\ last'.err.chain[1] = "failed to create API key"
                     /\ last'.sent = <<"createUser", "createKey">>]_vars

\* in sandbox with only an API key configured, a call has created a user and a
\* key and its token request is in flight with Basic auth of that fresh pair
C17_Witness ==
    \E p \in Callers :
        /\ config.Environment = Sandbox /\ config.APIUser = "" /\ config.APIKey # ""
        /\ pc[p] = "exchange"
        /\ call[p].sent = <<"createUser", "createKey", "token">>
        /\ \E m \in inflight :
              /\ m.from = p /\ m.kind = "token"
              /\ m.req.Headers.Authorization =
                    <<"Basic ", [base64 |-> <<call[p].uuid, ":", "key-1">>]>>

\* sandbox mode with neither an API user nor an API key configured
Unprovisioned == config.Environment = Sandbox /\ config.APIUser = "" /\ config.APIKey = ""

\* C18: no step modifies the configuration, and in sandbox mode with no API
\* user and key configured every cache miss of GetAccessToken, whatever came
\* before, sends a create-user request under an identifier never used before,
\* and the create-key request that follows its success names that identifier.
C18_ProvisionsAnew ==
    [][/\ config' = config
       /\ \A p \in Callers :
             /\ (Unprovisioned /\ pc[p] = "check" /\ pc'[p] # "check"
                    /\ ~CacheValid(accessToken, tokenExpiry, now)) =>
                   /\ pc'[p] = "createUser"
                   /\ created' = created + 1
                   /\ call'[p].uuid \notin Generated
                   /\ call'[p].uuid # ""
                   /\ \E m \in NewlySent(p, "createUser") :
                         m.req.Headers.XReferenceId = call'[p].uuid
             /\ (pc[p] = "createUser" /\ pc'[p] = "createKey") =>
                   \E m \in NewlySent(p, "createKey") :
                       m.req.Path = <<"/v1_0/apiuser/", call[p].uuid, "/apikey">>]_vars

\* after a token was cached, a later call has missed the cache and is
\* creating a second API user
C18_Witness ==
    \E p \in Callers :
        /\ Unprovisioned /\ cached.any
        /\ pc[p] = "createUser"
        /\ created = 2
        /\ call[p].uuid = NewUUID(2)
        /\ call[p].uuid # NewUUID(1)

\* how many requests of the kind the sequence of requests sent holds
RECURSIVE Count(_, _)
Count(sent, kind) ==
    IF sent = <<>> THEN 0
    ELSE (IF Head(sent) = kind THEN 1 ELSE 0) + Count(Tail(sent), kind)

\* at most one request of each kind
AtMostOnce(sent) ==
    \A kind \in {"createUser", "createKey", "token"} : Count(sent, kind) <= 1

\* C19: nothing is retried: a step of a call hands at most one request to the
\* transport, a GetAccessToken call sends at most one token request, one
\* create-user and one create-key request and has at most one request in
\* flight, and when the exchange fails the call returns the error, wrapping
\* its cause, with that one token request sent.
C19_NoRetry ==
    /\ [][\A p \in Callers :
            /\ Cardinality({m \in inflight' \ inflight : m.from = p}) <= 1
            /\ (pc[p] = "exchange" /\ pc'[p] # "exchange") => pc'[p] = "idle"]_vars
    /\ [](/\ \A p \in Callers :
               /\ AtMostOnce(call[p].sent)
               /\ Cardinality({m \in inflight : m.from = p}) <= 1
          /\ AtMostOnce(last.sent)
          /\ (last.from = "exchange" /\ last.err # NilError) =>
                /\ Count(last.sent, "token") = 1
                /\ last.token = ""
                /\ Len(last.err.chain) >= 2
                /\ last.err.chain[1] = "failed to fetch access token")

\* a call whose exchange was answered 403 has just returned that failure,
\* wrapped, after a single token request
C19_Witness ==
    /\ last.from = "exchange"
    /\ last.err.chain =
          <<"failed to fetch access token", "API request failed with status code">>
    /\ last.err.status = 403
    /\ Count(last.sent, "token") = 1

\* the request presents the key and, for a token request, goes to the path
\* that belong to the product
PresentsKeyOf(m, product) ==
    /\ product = "collection" =>
          /\ m.req.Headers.OcpApimSubscriptionKey = config.SubscriptionKey
          /\ m.kind = "token" => m.req.Path = <<"/collection/token/">>
    /\ product = "disbursement" =>
          /\ m.req.Headers.OcpApimSubscriptionKey = config.DisbursementKey
          /\ m.kind = "token" => m.req.Path = <<"/disbursement/token/">>

\* C20: a token request for "collection" goes to /collection/token/ with the
\* subscription key and one for "disbursement" to /disbursement/token/ with
\* the disbursement key; every request of a Collection operation presents the
\* subscription key and every request of a Disbursement operation the
\* disbursement key.
C20_ProductKeys ==
    \A m \in inflight :
        /\ m.kind = "token" =>
              /\ call[m.from].product \in KnownProducts
              /\ PresentsKeyOf(m, call[m.from].product)
        /\ m.kind \in AllOperationNames =>
              /\ operation[m.from].service \in Services
              /\ m.kind \in OperationNames(operation[m.from].service)
              /\ PresentsKeyOf(m, operation[m.from].service)

\* with a disbursement key of its own configured, a token was exchanged for
\* "disbursement" and the Transfer that asked for it has its request in flight
\* under the disbursement key
C20_Witness ==
    /\ config.DisbursementKey # config.SubscriptionKey
    /\ cached.any /\ cached.product = "disbursement"
    /\ \E m \in inflight :
          /\ m.kind = "Transfer"
          /\ m.req.Headers.OcpApimSubscriptionKey = config.DisbursementKey

\* C21: the token lock is released on every exit of GetAccessToken; with
\* network calls that return and fair scheduling every call returns, every
\* caller waiting for the lock acquires it, and the lock is never held for ever
InsideLock == {"check", "createUser", "createKey", "exchange"}

Returns(p) == pc[p] \in InsideLock /\ pc'[p] = "idle"

C21_LockReleased ==
    /\ [][\A p \in Callers : Returns(p) => tokenMutex' = <<>>]_vars
    /\ [](\A p \in Callers : tokenMutex = <<p>> <=> pc[p] \in InsideLock)
    /\ \A p \in Callers : (pc[p] # "idle") ~> (pc[p] = "idle")
    /\ \A p \in Callers : (pc[p] = "lock") ~> (tokenMutex = <<p>>)
    /\ (tokenMutex # <<>>) ~> (tokenMutex = <<>>)

\* a call has just failed in provisioning and left the lock free for a waiter
C21_Witness ==
    /\ last.from = "createUser"
    /\ last.err # NilError
    /\ tokenMutex = <<>>
    /\ \E q \in Callers : pc[q] = "lock"

\* C22: a GetAccessToken call that returns an error leaves the cached token
\* and the cached expiry as they were; only a successful exchange writes them
CacheWritten == accessToken' # accessToken \/ tokenExpiry' # tokenExpiry

C22_ErrorLeavesCache ==
    [][/\ (last'.from \in TokenReturns /\ last'.err # NilError) => ~CacheWritten
       /\ CacheWritten => /\ last'.from = "exchange"
                          /\ last'.err = NilError
                          /\ last'.exchanged # <<>>
                          /\ accessToken' = last'.exchanged[1].access_token.str
       /\ \A p \in Callers :
            (tokenMutex = <<p>> /\ pc'[p] # "idle") => ~CacheWritten]_vars

\* a failed exchange has returned and the older token is still in the cache
C22_Witness ==
    /\ last.from = "exchange"
    /\ last.err # NilError
    /\ accessToken # ""

\* C23: once the first exchange has cached a non-empty token, every caller
\* that runs before the cached expiry, of whatever product and however many
\* wait at the lock together, is served that token and no further exchange is
\* made: the exchange that filled the cache stays the only one
Fresh == accessToken # "" /\ Unexpired

\* the step makes no exchange and leaves the cache alone, and a call it ends
\* is served the cached token
ServedFromCache ==
    /\ inflight' = {}
    /\ UNCHANGED <<accessToken, tokenExpiry, cached>>
    /\ \A p \in Callers :
         Returns(p) => /\ last'.from = "check"
                       /\ last'.err = NilError
                       /\ last'.token = accessToken
                       /\ last'.sent = <<>>

\* no request is under way, no caller is past the cache check, and the cached
\* token is the one the last successful exchange returned
NoExchange ==
    /\ inflight = {}
    /\ \A p \in Callers : pc[p] \in {"idle", "lock", "check"}
    /\ cached.any /\ cached.token = accessToken

C23_SingleExchange ==
    /\ [](NoExchange \/ ~Fresh)
    /\ [][ServedFromCache \/ inflight # {} \/ ~Fresh]_vars

\* a caller is served the token that another product's exchange cached, and
\* yet another caller, waiting at the lock, is about to be served it too
C23_Witness ==
    /\ Fresh
    /\ last.from = "check" /\ last.token = accessToken
    /\ last.product # cached.product
    /\ \E q \in Callers : pc[q] = "lock" /\ call[q].product # last.product

====
